---- MODULE Spec2Model ----
(***************************************************************************)
(* Model of v1_train_capsnet.py: the training driver train(), its path     *)
(* validation, the data loader, the margin loss and the configured fit     *)
(* loop (epoch budget, early stopping, checkpoints).                       *)
(*                                                                         *)
(* A file name is a sequence of tokens; the token "." is the dot           *)
(* character, so 'capsnet_train.json' is <<"capsnet", "_train", ".",       *)
(* "json">>.  A directory entry is a pair <<name, writer>>: the writer is  *)
(* 0 for an entry that was there before any call and n for an entry the    *)
(* n-th train() call wrote.                                                *)
(***************************************************************************)
EXTENDS Integers, Sequences, FiniteSets, TLC

VARIABLES
    data,       \* the data files present on disk
    exists,     \* output directory -> whether it exists
    files,      \* output directory -> its entries <<name, writer>>
    pc,         \* position of the driver: "idle" or the next step of train()
    t_call,     \* number of train() calls started
    t_steps,    \* steps the current (or last) train() call has executed
    t_outcome,  \* "none" | "running" | "early" | "returned" | "raised"
    t_exc,      \* the step of the last call that raised, "none" if none did
    t_pre,      \* exists/files/sent as they were when the last call started
                \* (as they are when no call is on record)
    cb_list,    \* the list callbacks() returned in this call
    fit_cbs,    \* the callbacks handed to fit in this call
    sent,       \* acknowledgement messages sent so far
    wrote,      \* <<directory, name>> written by train() and not removed since
    vp_hist,    \* the validate_paths() calls made since the output tree was
                \* last changed by anything else: what each returned,
                \* printed and created
    \* --- fit: the training loop and its callbacks
    f_pc,       \* "ready" | "running" | "done"
    epoch,      \* epochs completed
    logs,       \* the metrics of the last completed epoch
    stop_training,  \* model.stop_training
    cb_stp,     \* EarlyStopping: wait, best, stopped_epoch
    cb_cpt_best,    \* ModelCheckpoint(save_best_only=True): best
    ckpt,       \* the epoch whose weights each checkpoint file holds (0: no file)
    dom,        \* the values the validation metrics take in this run
    hist,       \* what the completed epochs were: least loss, epochs since
                \* it last went down, greatest accuracy, first epoch with it
    \* --- load_data and margin_loss
    ld_file,    \* the 'data' matrix of each .mat file: train, valid
    ld_out,     \* <<>>, or <<what load_data() returned>>
    ml_in,      \* the tensors y_true, y_pred
    ml_out      \* <<>>, or <<what margin_loss(y_true, y_pred) evaluates to>>

driverVars == <<data, exists, files, pc, t_call, t_steps, t_outcome, t_exc,
                t_pre, cb_list, fit_cbs, sent, wrote, vp_hist>>

fitVars == <<f_pc, epoch, logs, stop_training, cb_stp, cb_cpt_best, ckpt, dom,
             hist>>

fnVars == <<ld_file, ld_out, ml_in, ml_out>>

vars == <<driverVars, fitVars, fnVars>>

\* ------------------------------------------------------------- bounds
MaxCalls == 2
MaxExtEntries == 1
\* validation loss takes the values 0..LossLevels in a long run and
\* 0..ShortLossLevels in a run whose accuracy varies over 0..AccLevels
LossLevels == 10
ShortLossLevels == 1
AccLevels == 2
\* a data matrix has up to MaxRows rows with labels 0..MaxLabel; an image
\* is ImgH x ImgW x ImgC
MaxRows == 2
MaxLabel == 1
ImgH == 1
ImgW == 2
ImgC == 1
\* the loss is evaluated on up to MaxSamples samples of NumClasses classes
MaxSamples == 2
NumClasses == 2

\* ------------------------------------------------------ configuration
ARCHITECTURE == "capsnet"
INPUT_DSHAPE == <<ImgH, ImgW, ImgC>>
IMAGE_SIZE == <<ImgH, ImgW, ImgC>>
NUM_EPOCHS == 100
\* EarlyStopping(min_delta=0, patience=10)
MinDelta == 0
Patience == 10

DataFiles == <<"DATA_TRAIN", "DATA_VALID">>

\* the order validate_paths() walks the output directories in
OutputDirs == <<"OUTPUT_DIR", "mdl_dir", "log_dir", "cpt_dir", "tbd_dir">>

DirSet == {OutputDirs[i] : i \in 1..Len(OutputDirs)}

SubDirs == DirSet \ {"OUTPUT_DIR"}

\* the entry of OUTPUT_DIR that a sub-directory is
SubDirName(d) ==
    CASE d = "mdl_dir" -> <<"models">>
      [] d = "log_dir" -> <<"logs">>
      [] d = "cpt_dir" -> <<"checkpoints">>
      [] d = "tbd_dir" -> <<"tensorboard">>

\* mutant: the training model's description is written without extension
mdl_train_file_noext == <<ARCHITECTURE, "_train">>

mdl_train_file == <<ARCHITECTURE, "_train", ".", "json">>
mdl_evaln_file == <<ARCHITECTURE, ".", "json">>
log_file == <<"training", ".", "csv">>
cpt_best == <<ARCHITECTURE, "_best", ".", "h5">>
cpt_last == <<ARCHITECTURE, "_last", ".", "h5">>
tbd_events == <<"events", ".", "out", ".", "tfevents">>
plot_loss == <<"plot_loss", ".", "png">>
plot_accuracy == <<"plot_accuracy", ".", "png">>

\* entries found in the output tree that no call wrote: a file without a
\* dot, a hidden file, a file with an extension
ExtNames == {<<"notes">>, <<".", "keep">>, <<"old", ".", "h5">>}

\* ------------------------------------------------------- file system
Names(entries) == {e[1] : e \in entries}

\* os.listdir(d): the entries of d; the sub-directories that exist are
\* entries of OUTPUT_DIR
Listing(d, ex, fl) ==
    Names(fl[d]) \cup
    (IF d = "OUTPUT_DIR" THEN {SubDirName(s) : s \in {x \in SubDirs : ex[x]}}
                         ELSE {})

\* mutant: the pattern is '*', any visible entry matches
GlobMatchesStar(name) ==
    /\ Len(name) > 0
    /\ name[1] # "."

\* fnmatch of a name against the glob pattern '*.*': a dot somewhere in the
\* name; glob skips names that start with a dot
GlobMatches(name) ==
    /\ Len(name) > 0
    /\ name[1] # "."
    /\ \E i \in 1..Len(name) : name[i] = "."

\* mutant: the pattern is joined to OUTPUT_DIR, not to the directory
GlobOutputDirOnly(d, ex, fl) ==
    {n \in Listing("OUTPUT_DIR", ex, fl) : GlobMatches(n)}

\* glob.glob(os.path.join(d, '*.*'))
Glob(d, ex, fl) == {n \in Listing(d, ex, fl) : GlobMatches(n)}

\* open(name, 'w') and write in directory d by call w
WriteFile(fl, d, name, w) ==
    [fl EXCEPT ![d] = {e \in @ : e[1] # name} \cup {<<name, w>>}]

\* ---------------------------------------------------- validate_paths
\* mutant: only the training data is looked for
CheckedFilesTrainOnly == <<"DATA_TRAIN">>

\* the files the first loop of validate_paths() looks for
CheckedFiles == DataFiles

\* first loop: the messages printed, one per missing data file
MissingData(dt) ==
    {<<"Data not found at", CheckedFiles[i]>> :
        i \in {j \in 1..Len(CheckedFiles) : CheckedFiles[j] \notin dt}}

\* second loop, from directory i on: a missing directory is made (and not
\* looked into), an existing one is globbed for '*.*'.  r carries the
\* directories that exist, those made and the messages printed so far.
RECURSIVE DirLoop(_, _, _)
DirLoop(i, fl, r) ==
    IF i > Len(OutputDirs) THEN r
    ELSE LET d == OutputDirs[i] IN
         IF ~r.exists[d]
         THEN DirLoop(i + 1, fl,
                      [r EXCEPT !.exists = [@ EXCEPT ![d] = TRUE],
                                !.made = @ \cup {d}])
         ELSE IF Cardinality(Glob(d, r.exists, fl)) > 0
         THEN DirLoop(i + 1, fl,
                      [r EXCEPT !.printed =
                           @ \cup {<<"Output directory must be empty", d>>}])
         ELSE DirLoop(i + 1, fl, r)

\* validate_paths(): [flag, exists, made, printed]; flag is False exactly
\* when a message was printed
validate_paths(dt, ex, fl) ==
    LET r == DirLoop(1, fl, [exists |-> ex, made |-> {},
                             printed |-> MissingData(dt)])
    IN  [flag |-> r.printed = {}, exists |-> r.exists, made |-> r.made,
         printed |-> r.printed]

\* the record of a validate_paths() call kept in vp_hist
VpRecord(v) == [flag |-> v.flag, made |-> v.made, printed |-> v.printed]

\* vp_hist keeps the last two calls
Remember(h, x) == IF Len(h) < 2 THEN Append(h, x) ELSE <<h[2], x>>

\* ------------------------------------------------------------ train()
\* the statements of train() in program order
Steps == <<"validate_paths", "load_data", "build_model", "to_json",
           "write_train_json", "write_evaln_json", "callbacks",
           "acknowledge", "fit", "plot">>

StepIndex(s) == CHOOSE i \in 1..Len(Steps) : Steps[i] = s

\* mutant: fit is called before the callbacks are created
StepsFitFirst == <<"validate_paths", "load_data", "build_model", "to_json",
                   "write_train_json", "write_evaln_json", "fit",
                   "callbacks", "acknowledge", "plot">>

AfterFitFirst(s) ==
    LET i == CHOOSE j \in 1..Len(StepsFitFirst) : StepsFitFirst[j] = s
    IN  IF i = Len(StepsFitFirst) THEN "idle" ELSE StepsFitFirst[i + 1]

\* where control is after step s completed: the next statement, or back
\* in the caller after the last one
After(s) ==
    IF StepIndex(s) = Len(Steps) THEN "idle" ELSE Steps[StepIndex(s) + 1]

\* callbacks(): the list it returns
callbacks ==
    <<"cb_log", "cb_stp", "cb_lrs", "cb_cpt_best", "cb_cpt_last", "cb_tbd",
      "cb_tel">>

\* what each step writes when it completes: <<directory, name>> in order
Writes(s) ==
    CASE s = "write_train_json" -> <<<<"mdl_dir", mdl_train_file>>>>
      [] s = "write_evaln_json" -> <<<<"mdl_dir", mdl_evaln_file>>>>
      [] s = "fit" -> <<<<"log_dir", log_file>>, <<"tbd_dir", tbd_events>>,
                        <<"cpt_dir", cpt_best>>, <<"cpt_dir", cpt_last>>>>
      [] s = "plot" -> <<<<"log_dir", plot_loss>>,
                         <<"log_dir", plot_accuracy>>>>
      [] OTHER -> <<>>

RECURSIVE WriteAll(_, _, _, _)
WriteAll(fl, ws, k, w) ==
    IF k = 0 THEN fl
    ELSE WriteFile(WriteAll(fl, ws, k - 1, w), ws[k][1], ws[k][2], w)

Written(ws, k) == {ws[i] : i \in 1..k}

\* mutant: the exception is caught and train() goes on
PropagateSwallowed ==
    /\ pc' = After(pc)
    /\ t_outcome' = IF After(pc) = "idle" THEN "returned" ELSE "running"

\* an exception leaves train(): there is no try/except, control is back
\* in the caller
Propagate ==
    /\ pc' = "idle"
    /\ t_outcome' = "raised"

\* the call and its first statement: if not validate_paths(): return
TrainBegin ==
    /\ UNCHANGED <<fitVars, fnVars>>
    /\ pc = "idle"
    /\ t_call < MaxCalls
    /\ LET v == validate_paths(data, exists, files) IN
       /\ exists' = v.exists
       /\ vp_hist' = Remember(vp_hist, VpRecord(v))
       /\ IF v.flag
          THEN pc' = After("validate_paths") /\ t_outcome' = "running"
          ELSE pc' = "idle" /\ t_outcome' = "early"
    /\ t_call' = t_call + 1
    /\ t_steps' = <<"validate_paths">>
    /\ t_exc' = "none"
    /\ t_pre' = [exists |-> exists, files |-> files, sent |-> sent]
    /\ cb_list' = <<>>
    /\ fit_cbs' = <<>>
    /\ UNCHANGED <<data, files, sent, wrote>>

\* step s completes
StepDone(s) ==
    /\ UNCHANGED <<fitVars, fnVars>>
    /\ pc = s
    /\ t_steps' = Append(t_steps, s)
    /\ pc' = After(s)
    /\ t_outcome' = IF After(s) = "idle" THEN "returned" ELSE "running"
    /\ files' = WriteAll(files, Writes(s), Len(Writes(s)), t_call)
    /\ wrote' = wrote \cup Written(Writes(s), Len(Writes(s)))
    /\ cb_list' = IF s = "callbacks" THEN callbacks ELSE cb_list
    /\ fit_cbs' = IF s = "fit" THEN cb_list ELSE fit_cbs
    /\ sent' = IF s = "acknowledge" THEN sent + 1 ELSE sent
    /\ vp_hist' = IF Writes(s) = <<>> THEN vp_hist ELSE <<>>
    /\ UNCHANGED <<data, exists, t_call, t_exc, t_pre>>

\* step s raises after the first k of its writes
StepRaises(s) ==
    /\ UNCHANGED <<fitVars, fnVars>>
    /\ pc = s
    /\ t_steps' = Append(t_steps, s)
    /\ t_exc' = s
    /\ Propagate
    /\ \E k \in 0..Len(Writes(s)) :
          /\ files' = WriteAll(files, Writes(s), k, t_call)
          /\ wrote' = wrote \cup Written(Writes(s), k)
          /\ vp_hist' = IF k = 0 THEN vp_hist ELSE <<>>
    /\ fit_cbs' = IF s = "fit" THEN cb_list ELSE fit_cbs
    /\ UNCHANGED <<data, exists, t_call, t_pre, cb_list, sent>>

\* someone empties an output directory between two calls
ExternalClean ==
    /\ UNCHANGED <<fitVars, fnVars>>
    /\ pc = "idle"
    /\ \E d \in DirSet :
          /\ files[d] # {}
          /\ files' = [files EXCEPT ![d] = {}]
          /\ wrote' = {x \in wrote : x[1] # d}
          /\ t_pre' = [exists |-> exists, files |-> files', sent |-> sent]
    /\ vp_hist' = <<>>
    /\ t_outcome' = "none"
    /\ t_steps' = <<>>
    /\ t_exc' = "none"
    /\ UNCHANGED <<data, exists, pc, t_call, cb_list, fit_cbs, sent>>

\* ------------------------------------------------------ fit and callbacks
\* the names of the monitored metrics, 'val_{}_loss' and 'val_{}_acc'
MonitorLoss == <<"val", "_", ARCHITECTURE, "_", "loss">>
MonitorAcc == <<"val", "_", ARCHITECTURE, "_", "acc">>

\* mutant: every monitor is taken to be one to minimise
ModeAutoMin(monitor) == "less"

\* mode='auto': a monitor with 'acc' in its name is maximised, any other
\* is minimised
ModeAuto(monitor) ==
    IF \E i \in 1..Len(monitor) : monitor[i] = "acc" THEN "greater"
                                                      ELSE "less"

\* the best value so far is <<>> before any epoch (np.Inf or -np.Inf)
Better(op, v, best) ==
    \/ best = <<>>
    \/ op = "less" /\ v < best[1]
    \/ op = "greater" /\ v > best[1]

Monitored(monitor, lg) ==
    IF monitor = MonitorLoss THEN lg.val_loss ELSE lg.val_acc

\* mutant: the patience is tested before the epoch is counted, which
\* stops one epoch later
EarlyStoppingLate(st, lg, stop) ==
    LET current == Monitored(MonitorLoss, lg) IN
    IF Better(ModeAuto(MonitorLoss), current - MinDelta, st.best)
    THEN [st |-> [st EXCEPT !.best = <<current>>, !.wait = 0], stop |-> stop]
    ELSE [st |-> [st EXCEPT !.wait = @ + 1],
          stop |-> stop \/ st.wait >= Patience]

\* EarlyStopping.on_epoch_end: an improvement of the monitored loss resets
\* wait; otherwise wait grows and training is told to stop once it
\* reaches the patience
EarlyStopping(st, lg, stop) ==
    LET current == Monitored(MonitorLoss, lg) IN
    IF Better(ModeAuto(MonitorLoss), current - MinDelta, st.best)
    THEN [st |-> [st EXCEPT !.best = <<current>>, !.wait = 0], stop |-> stop]
    ELSE [st |-> [st EXCEPT !.wait = @ + 1],
          stop |-> stop \/ st.wait + 1 >= Patience]

\* ModelCheckpoint(save_best_only=True).on_epoch_end after epoch e: the
\* weights are saved when the monitored accuracy beats the best
CheckpointBest(st, file, lg, e) ==
    LET current == Monitored(MonitorAcc, lg) IN
    IF Better(ModeAuto(MonitorAcc), current, st.best)
    THEN [st |-> [st EXCEPT !.best = <<current>>], file |-> e]
    ELSE [st |-> st, file |-> file]

\* ModelCheckpoint(save_best_only=False).on_epoch_end: saved every epoch
CheckpointLast(file, lg, e) == e

\* what hist becomes with one more completed epoch e
Recorded(h, lg, e) ==
    [min_loss |-> IF h.min_loss = <<>> \/ lg.val_loss < h.min_loss[1]
                  THEN <<lg.val_loss>> ELSE h.min_loss,
     noimp |-> IF h.min_loss = <<>> \/ lg.val_loss < h.min_loss[1]
               THEN 0 ELSE h.noimp + 1,
     max_acc |-> IF h.max_acc = <<>> \/ lg.val_acc > h.max_acc[1]
                 THEN <<lg.val_acc>> ELSE h.max_acc,
     argmax |-> IF h.max_acc = <<>> \/ lg.val_acc > h.max_acc[1]
                THEN e ELSE h.argmax]

\* fit is not running
FitIdle ==
    /\ f_pc = "ready"
    /\ epoch = 0
    /\ logs = [val_loss |-> 0, val_acc |-> 0]
    /\ stop_training = FALSE
    /\ cb_stp = [wait |-> 0, best |-> <<>>, stopped_epoch |-> 0]
    /\ cb_cpt_best = [best |-> <<>>]
    /\ ckpt = [best |-> 0, last |-> 0]
    /\ hist = [min_loss |-> <<>>, noimp |-> 0, max_acc |-> <<>>, argmax |-> 0]

\* fit(...): on_train_begin
FitBegin ==
    /\ f_pc = "ready"
    /\ f_pc' = "running"
    /\ stop_training' = FALSE
    /\ cb_stp' = [wait |-> 0, best |-> <<>>, stopped_epoch |-> 0]
    /\ UNCHANGED <<epoch, logs, cb_cpt_best, ckpt, dom, hist>>
    /\ UNCHANGED <<driverVars, fnVars>>

\* one epoch of the loop and on_epoch_end of the callbacks, in list order
EpochEnd ==
    /\ f_pc = "running"
    /\ epoch < NUM_EPOCHS
    /\ ~stop_training
    /\ \E l \in 0..dom.loss_max, a \in 0..dom.acc_max :
          LET lg == [val_loss |-> l, val_acc |-> a]
              e == epoch + 1
              s == EarlyStopping(cb_stp, lg, stop_training)
              b == CheckpointBest(cb_cpt_best, ckpt.best, lg, e)
          IN  /\ logs' = lg
              /\ epoch' = e
              /\ cb_stp' = IF s.stop /\ ~stop_training
                           THEN [s.st EXCEPT !.stopped_epoch = epoch]
                           ELSE s.st
              /\ stop_training' = s.stop
              /\ cb_cpt_best' = b.st
              /\ ckpt' = [best |-> b.file,
                          last |-> CheckpointLast(ckpt.last, lg, e)]
              /\ hist' = Recorded(hist, lg, e)
    /\ UNCHANGED <<f_pc, dom>>
    /\ UNCHANGED <<driverVars, fnVars>>

\* the loop ends: the epochs are used up or a callback asked to stop
FitReturn ==
    /\ f_pc = "running"
    /\ epoch >= NUM_EPOCHS \/ stop_training
    /\ f_pc' = "done"
    /\ UNCHANGED <<epoch, logs, stop_training, cb_stp, cb_cpt_best, ckpt, dom,
                   hist>>
    /\ UNCHANGED <<driverVars, fnVars>>

\* ---------------------------------------------------------- load_data
Prod(shape) == shape[1] * shape[2] * shape[3]

\* numpy.random.shuffle(m): the rows of m in the order p
Perms(n) == {p \in [1..n -> 1..n] : \A i, j \in 1..n : p[i] = p[j] => i = j}

Shuffled(m, p) == [i \in 1..Len(m) |-> m[p[i]]]

\* mutant: the slice is m[:, :-1], which keeps the label column
ColumnsButLast(m) == [i \in 1..Len(m) |-> SubSeq(m[i], 1, Len(m[i]) - 1)]

\* m[:, 1:]
ColumnsFrom1(m) == [i \in 1..Len(m) |-> SubSeq(m[i], 2, Len(m[i]))]

\* m[:, 0]
Column0(m) == [i \in 1..Len(m) |-> m[i][1]]

\* the elements of a matrix in row-major order
RECURSIVE Flat(_)
Flat(m) == IF m = <<>> THEN <<>> ELSE m[1] \o Flat(Tail(m))

\* m.reshape((-1,) + shape): as many H x W x C blocks as the elements fill
Reshape(m, shape) ==
    LET flat == Flat(m)
        P == Prod(shape)
    IN  [k \in 1..(Len(flat) \div P) |->
            [h \in 1..shape[1] |->
                [w \in 1..shape[2] |->
                    [c \in 1..shape[3] |->
                        flat[(k - 1) * P +
                             ((h - 1) * shape[2] + (w - 1)) * shape[3] + c]]]]]

\* .astype('float32') / 255.0: the value v / 255 is kept as <<v, 255>>
Scaled(x) ==
    [k \in DOMAIN x |-> [h \in DOMAIN x[k] |-> [w \in DOMAIN x[k][h] |->
        [c \in DOMAIN x[k][h][w] |-> <<x[k][h][w][c], 255>>]]]]

RECURSIVE MaxOf(_)
MaxOf(v) ==
    IF Len(v) = 1 THEN v[1]
    ELSE LET r == MaxOf(Tail(v)) IN IF v[1] > r THEN v[1] ELSE r

\* to_categorical(y): one row per label, max(y) + 1 columns, a 1 in the
\* column of the label
to_categorical(y) ==
    [i \in 1..Len(y) |->
        [c \in 1..(MaxOf(y) + 1) |-> IF c = y[i] + 1 THEN 1 ELSE 0]]

\* load_data() on the two matrices, shuffled by pt and pv; INPUT_DSHAPE
\* equals IMAGE_SIZE, so the images are reshaped, not resized
load_data(ft, fv, pt, pv) ==
    LET data_train == Shuffled(ft, pt)
        data_valid == Shuffled(fv, pv)
    IN  [x_train |-> Scaled(Reshape(ColumnsFrom1(data_train), INPUT_DSHAPE)),
         y_train |-> to_categorical(Column0(data_train)),
         x_valid |-> Scaled(Reshape(ColumnsFrom1(data_valid), INPUT_DSHAPE)),
         y_valid |-> to_categorical(Column0(data_valid))]

LoadData ==
    /\ ld_out = <<>>
    /\ INPUT_DSHAPE = IMAGE_SIZE
    /\ \E pt \in Perms(Len(ld_file.train)), pv \in Perms(Len(ld_file.valid)) :
          ld_out' = <<load_data(ld_file.train, ld_file.valid, pt, pv)>>
    /\ UNCHANGED <<ld_file, ml_in, ml_out>>
    /\ UNCHANGED <<driverVars, fitVars>>

\* -------------------------------------------------------- margin_loss
\* Predictions are in hundredths (90 is 0.9) and losses in units of
\* 1/20000, which keeps the factor 0.5 and the squares whole numbers.
K_maximum(a, x) == IF x > a THEN x ELSE a

K_square(x) == x * x

\* mutant: the factor 0.5 is on the true-class term
ElementLossSwapped(yt, yp) ==
    yt * K_square(K_maximum(0, 90 - yp))
    + 2 * (1 - yt) * K_square(K_maximum(0, yp - 10))

\* y_true * square(maximum(0., 0.9 - y_pred))
\*   + 0.5 * (1 - y_true) * square(maximum(0., y_pred - 0.1))
ElementLoss(yt, yp) ==
    2 * yt * K_square(K_maximum(0, 90 - yp))
    + (1 - yt) * K_square(K_maximum(0, yp - 10))

RECURSIVE SumSeq(_)
SumSeq(v) == IF v = <<>> THEN 0 ELSE v[1] + SumSeq(Tail(v))

\* backend.sum(m, 1): one sum per row
K_sum1(m) == [i \in 1..Len(m) |-> SumSeq(m[i])]

\* backend.mean(v), kept as numerator and denominator
K_mean(v) == [num |-> SumSeq(v), den |-> Len(v)]

margin_loss(y_true, y_pred) ==
    LET loss == [i \in 1..Len(y_true) |->
                    [c \in 1..Len(y_true[i]) |->
                        ElementLoss(y_true[i][c], y_pred[i][c])]]
    IN  [per_sample |-> K_sum1(loss), mean |-> K_mean(K_sum1(loss))]

MarginLoss ==
    /\ ml_out = <<>>
    /\ ml_out' = <<margin_loss(ml_in.y_true, ml_in.y_pred)>>
    /\ UNCHANGED <<ld_file, ld_out, ml_in>>
    /\ UNCHANGED <<driverVars, fitVars>>

\* neither function has been called
FnIdle ==
    /\ ld_file = [train |-> <<>>, valid |-> <<>>]
    /\ ld_out = <<>>
    /\ ml_in = [y_true |-> <<>>, y_pred |-> <<>>]
    /\ ml_out = <<>>

\* ------------------------------------------------------ specification
\* the output tree before the first call: OUTPUT_DIR and any of its
\* sub-directories may exist, with at most MaxExtEntries entries in them
TreeOK(ex, fl) ==
    /\ \A d \in SubDirs : ex[d] => ex["OUTPUT_DIR"]
    /\ \A d \in DirSet : ~ex[d] => fl[d] = {}

ExtEntries == {<<n, 0>> : n \in ExtNames}

RECURSIVE Total(_, _)
Total(fl, ds) ==
    IF ds = {} THEN 0
    ELSE LET d == CHOOSE x \in ds : TRUE
         IN  Cardinality(fl[d]) + Total(fl, ds \ {d})

Init ==
    /\ data \in SUBSET {DataFiles[i] : i \in 1..Len(DataFiles)}
    /\ exists \in [DirSet -> BOOLEAN]
    /\ files \in [DirSet -> {s \in SUBSET ExtEntries :
                                Cardinality(s) <= MaxExtEntries}]
    /\ TreeOK(exists, files)
    /\ Total(files, DirSet) <= MaxExtEntries
    /\ pc = "idle"
    /\ t_call = 0
    /\ t_steps = <<>>
    /\ t_outcome = "none"
    /\ t_exc = "none"
    /\ t_pre = [exists |-> exists, files |-> files, sent |-> 0]
    /\ cb_list = <<>>
    /\ fit_cbs = <<>>
    /\ sent = 0
    /\ wrote = {}
    /\ vp_hist = <<>>
    /\ FitIdle
    /\ dom = [loss_max |-> 0, acc_max |-> 0]
    /\ FnIdle

Next ==
    \/ TrainBegin
    \/ \E s \in {Steps[i] : i \in 2..Len(Steps)} : StepDone(s)
    \/ \E s \in {Steps[i] : i \in 2..Len(Steps)} : StepRaises(s)
    \/ ExternalClean

Spec == Init /\ [][Next]_vars

\* the driver is not running
DriverIdle ==
    /\ data = {"DATA_TRAIN", "DATA_VALID"}
    /\ exists = [d \in DirSet |-> TRUE]
    /\ files = [d \in DirSet |-> {}]
    /\ pc = "idle"
    /\ t_call = 0
    /\ t_steps = <<>>
    /\ t_outcome = "none"
    /\ t_exc = "none"
    /\ t_pre = [exists |-> exists, files |-> files, sent |-> 0]
    /\ cb_list = <<>>
    /\ fit_cbs = <<>>
    /\ sent = 0
    /\ wrote = {}
    /\ vp_hist = <<>>

\* the fit loop on its own: a long run on a loss of many values, or a
\* short one with an accuracy that varies
InitFit ==
    /\ DriverIdle
    /\ FitIdle
    /\ dom \in {[loss_max |-> LossLevels, acc_max |-> 0],
                [loss_max |-> ShortLossLevels, acc_max |-> AccLevels]}
    /\ FnIdle

NextFit ==
    \/ FitBegin
    \/ EpochEnd
    \/ FitReturn

SpecFit == InitFit /\ [][NextFit]_vars

\* a row of a data matrix: the label, then the pixels, counting up from 1
\* or down from 255
DataRow(label, down) ==
    <<label>> \o [j \in 1..Prod(IMAGE_SIZE) |-> IF down THEN 256 - j ELSE j]

DataRows == {DataRow(l, b) : l \in 0..MaxLabel, b \in BOOLEAN}

Matrices(n) == UNION {[1..k -> DataRows] : k \in 1..n}

\* load_data on its own: two matrices of the stored form, MaxRows + 1 rows
\* between them at most
InitLoad ==
    /\ DriverIdle
    /\ FitIdle
    /\ dom = [loss_max |-> 0, acc_max |-> 0]
    /\ ld_file \in {f \in [train : Matrices(MaxRows), valid : Matrices(MaxRows)] :
                       Len(f.train) + Len(f.valid) <= MaxRows + 1}
    /\ ld_out = <<>>
    /\ ml_in = [y_true |-> <<>>, y_pred |-> <<>>]
    /\ ml_out = <<>>

NextLoad == LoadData

SpecLoad == InitLoad /\ [][NextLoad]_vars

\* a sample of class k: the prediction t for its class, o for the others
PredLevels == {10, 50, 90}

OneHot(k) == [c \in 1..NumClasses |-> IF c = k THEN 1 ELSE 0]

PredRow(k, t, o) == [c \in 1..NumClasses |-> IF c = k THEN t ELSE o]

Samples ==
    {[y_true |-> OneHot(k), y_pred |-> PredRow(k, t, o)] :
        k \in 1..NumClasses, t \in PredLevels, o \in PredLevels}

\* margin_loss on its own: one-hot labels, predictions in [0, 1]
InitLoss ==
    /\ DriverIdle
    /\ FitIdle
    /\ dom = [loss_max |-> 0, acc_max |-> 0]
    /\ ld_file = [train |-> <<>>, valid |-> <<>>]
    /\ ld_out = <<>>
    /\ \E n \in 1..MaxSamples : \E b \in [1..n -> Samples] :
          ml_in = [y_true |-> [i \in 1..n |-> b[i].y_true],
                   y_pred |-> [i \in 1..n |-> b[i].y_pred]]
    /\ ml_out = <<>>

NextLoss == MarginLoss

SpecLoss == InitLoss /\ [][NextLoss]_vars

\* ------------------------------------------------------------ claims
\* a name with a dot in it that does not start with one
Dotted(n) == n[1] # "." /\ \E i \in 2..Len(n) : n[i] = "."

AllData == {"DATA_TRAIN", "DATA_VALID"}

\* the entries directory d had when the last call started
PreListing(d) ==
    Names(t_pre.files[d]) \cup
    (IF d = "OUTPUT_DIR"
     THEN {SubDirName(x) : x \in {y \in SubDirs : t_pre.exists[y]}}
     ELSE {})

\* the last call returned right after validate_paths() and did nothing else
ReturnedEarly ==
    /\ t_outcome = "early"
    /\ pc = "idle"
    /\ t_exc = "none"
    /\ t_steps = <<"validate_paths">>
    /\ files = t_pre.files
    /\ sent = t_pre.sent
    /\ cb_list = <<>>
    /\ fit_cbs = <<>>

LastVp == vp_hist[Len(vp_hist)]

\* C1: when a data file is absent at the call, train() prints a message
\* for it and returns normally right after validate_paths(): it loads
\* nothing, builds nothing, writes no file, sends no message, calls
\* neither fit nor plot.
C1_MissingDataReturnsEarly ==
    (t_outcome # "none" /\ data # AllData) =>
        /\ ReturnedEarly
        /\ vp_hist # <<>>
        /\ ~LastVp.flag
        /\ \A f \in AllData \ data :
              <<"Data not found at", f>> \in LastVp.printed

C1_Witness ==
    /\ t_outcome = "early"
    /\ data = {"DATA_TRAIN"}
    /\ t_call = 1
    /\ \A d \in DirSet : files[d] = {}

\* C2 (as stated): train() returns early without writing whenever any
\* output directory holds any entry at all when it is called.
C2_AnyEntryRefused ==
    (t_outcome # "none" /\
     \E d \in DirSet : t_pre.exists[d] /\ PreListing(d) # {})
        => ReturnedEarly

\* C2 (amended): train() returns early without writing whenever an output
\* directory that exists when it is called holds an entry whose name has a
\* dot in it and does not start with one (what the pattern '*.*' matches).
C2_DottedEntryRefused ==
    (t_outcome # "none" /\
     \E d \in DirSet : t_pre.exists[d] /\ \E n \in PreListing(d) : Dotted(n))
        => /\ ReturnedEarly
           /\ vp_hist # <<>>
           /\ ~LastVp.flag

C2_Witness ==
    /\ t_outcome = "early"
    /\ data = AllData
    /\ t_call = 1
    /\ t_pre.files["cpt_dir"] = {<<(<<"old", ".", "h5">>), 0>>}

\* C4: once a step of train() has raised, control is back in the caller:
\* the raising step is the last step of that call, no step ran twice, and
\* the raising transition removes nothing that was in the output tree.
C4_ExceptionPropagates ==
    /\ [](t_exc # "none" =>
            /\ pc = "idle"
            /\ t_outcome = "raised"
            /\ t_steps[Len(t_steps)] = t_exc
            /\ \A i, j \in 1..Len(t_steps) :
                  t_steps[i] = t_steps[j] => i = j)
    /\ [][(t_exc' # "none" /\ t_exc = "none") =>
            /\ \A d \in DirSet :
                  /\ exists[d] => exists'[d]
                  /\ Names(files[d]) \subseteq Names(files'[d])
                  /\ \A e \in files[d] : e[2] = t_call => e \in files'[d]
            /\ wrote \subseteq wrote'
            /\ sent' >= sent]_vars
    /\ [][(t_exc # "none" /\ t_call' = t_call) =>
            (t_steps' = t_steps \/ t_steps' = <<>>)]_vars

C4_Witness ==
    /\ t_exc = "fit"
    /\ <<"mdl_dir", mdl_evaln_file>> \in wrote
    /\ <<"log_dir", log_file>> \in wrote
    /\ <<"cpt_dir", cpt_last>> \notin wrote

\* image img is the pixels of matrix row r, each over 255
ImageOfRow(img, r) ==
    \A h \in 1..ImgH, w \in 1..ImgW, c \in 1..ImgC :
        img[h][w][c] = <<r[1 + ((h - 1) * ImgW + (w - 1)) * ImgC + c], 255>>

\* y is the one-hot vector of the label of matrix row r
LabelOfRow(y, r) ==
    /\ r[1] + 1 \in 1..Len(y)
    /\ \A c \in 1..Len(y) : y[c] = IF c = r[1] + 1 THEN 1 ELSE 0

SplitOfFile(x, y, m) ==
    /\ Len(x) = Len(m)
    /\ Len(y) = Len(m)
    /\ \E p \in Perms(Len(m)) :
          \A i \in 1..Len(m) :
              ImageOfRow(x[i], m[p[i]]) /\ LabelOfRow(y[i], m[p[i]])

\* C3: each split load_data() returns has one image and one label per row
\* of its own matrix, and some reordering of the rows gives, index by
\* index, the label (first column) and the pixels (other columns) of the
\* same row.
C3_LabelStaysWithPixels ==
    ld_out # <<>> =>
        /\ SplitOfFile(ld_out[1].x_train, ld_out[1].y_train, ld_file.train)
        /\ SplitOfFile(ld_out[1].x_valid, ld_out[1].y_valid, ld_file.valid)

C3_Witness ==
    /\ ld_out # <<>>
    /\ Len(ld_file.train) = 2
    /\ ld_file.train[1][1] = 0
    /\ ld_file.train[2][1] = 1
    /\ ld_file.train[1][2] # ld_file.train[2][2]
    /\ ld_out[1].y_train[1] = <<0, 1>>
    /\ ld_out[1].x_train[1][1][1][1] = <<ld_file.train[2][2], 255>>
    /\ ld_file.valid[1] \notin {ld_file.train[1], ld_file.train[2]}

\* the loss of the closed form, in units of 1/20000, summed over a batch
ClaimedElement(yt, yp) ==
    IF yt = 1 THEN 2 * (IF yp < 90 THEN (90 - yp) * (90 - yp) ELSE 0)
              ELSE (IF yp > 10 THEN (yp - 10) * (yp - 10) ELSE 0)

RECURSIVE ClaimedRow(_, _, _)
ClaimedRow(yt, yp, c) ==
    IF c = 0 THEN 0
    ELSE ClaimedElement(yt[c], yp[c]) + ClaimedRow(yt, yp, c - 1)

RECURSIVE ClaimedTotal(_, _, _)
ClaimedTotal(yt, yp, i) ==
    IF i = 0 THEN 0
    ELSE ClaimedRow(yt[i], yp[i], Len(yt[i])) + ClaimedTotal(yt, yp, i - 1)

\* sample i falls short by d on its class and is within margin elsewhere
ShortBy(i, d) ==
    \A c \in 1..Len(ml_in.y_true[i]) :
        IF ml_in.y_true[i][c] = 1 THEN ml_in.y_pred[i][c] = 90 - d
                                  ELSE ml_in.y_pred[i][c] <= 10

\* sample j is within margin on its class and exceeds by d on the others
OverBy(j, d) ==
    \A c \in 1..Len(ml_in.y_true[j]) :
        IF ml_in.y_true[j][c] = 1 THEN ml_in.y_pred[j][c] >= 90
                                  ELSE ml_in.y_pred[j][c] = 10 + d

Phase(s) ==
    CASE s = "validate_paths" -> 1
      [] s = "load_data" -> 2
      [] s = "build_model" -> 3
      [] s \in {"to_json", "write_train_json", "write_evaln_json"} -> 4
      [] s = "callbacks" -> 5
      [] s = "acknowledge" -> 6
      [] s = "fit" -> 7
      [] s = "plot" -> 8

Ran(s) == \E i \in 1..Len(t_steps) : t_steps[i] = s

\* C5: the steps of a call run in the order validate, load, build, write
\* the JSON files, callbacks, acknowledgement, fit, plot, none skipped and
\* none repeated; fit runs only after validation succeeded, both JSON
\* files were written by this call and the seven callbacks were made, and
\* gets all seven; plot runs only after fit returned.
C5_FixedOrder ==
    /\ t_steps # <<>> => Phase(t_steps[1]) = 1
    /\ \A i \in 1..Len(t_steps) - 1 :
          /\ Phase(t_steps[i + 1]) \in {Phase(t_steps[i]), Phase(t_steps[i]) + 1}
          /\ t_steps[i + 1] # t_steps[i]
    /\ \A i, j \in 1..Len(t_steps) : t_steps[i] = t_steps[j] => i = j
    /\ Ran("fit") =>
          /\ data = AllData
          /\ \A d \in DirSet : \A n \in PreListing(d) : ~Dotted(n)
          /\ <<mdl_train_file, t_call>> \in files["mdl_dir"]
          /\ <<mdl_evaln_file, t_call>> \in files["mdl_dir"]
          /\ Len(fit_cbs) = 7
          /\ fit_cbs = cb_list
          /\ Cardinality({fit_cbs[i] : i \in 1..Len(fit_cbs)}) = 7
          /\ sent = t_pre.sent + 1
    /\ Ran("plot") => Ran("fit") /\ t_exc # "fit"

C5_Witness ==
    /\ t_outcome = "returned"
    /\ Len(t_steps) = 10
    /\ Ran("plot")

\* C7: a train() call made while a model JSON file written by an earlier
\* call is still there returns early and changes no file.
C7_NoOverwrite ==
    [][(t_call' = t_call + 1 /\ \E x \in wrote : x[1] = "mdl_dir") =>
          /\ t_outcome' = "early"
          /\ pc' = "idle"
          /\ files' = files
          /\ wrote' = wrote]_vars

C7_Witness ==
    /\ t_outcome = "early"
    /\ t_call = 2
    /\ data = AllData
    /\ wrote = {<<"mdl_dir", mdl_train_file>>}
    /\ \A d \in DirSet : \A e \in files[d] : e[2] = 1

\* C8: validate_paths() reports every missing data file and every output
\* directory with a dotted entry, leaves all five directories in place,
\* changes no file, and a second call with nothing else changed returns
\* what the first returned.
C8_ValidateIdempotent ==
    /\ t_call > 0 => \A d \in DirSet : exists[d]
    /\ Len(t_steps) = 1 =>
          /\ files = t_pre.files
          /\ vp_hist # <<>>
          /\ LastVp.made = {d \in DirSet : ~t_pre.exists[d]}
          /\ LastVp.printed =
                {<<"Data not found at", f>> : f \in AllData \ data} \cup
                {<<"Output directory must be empty", d>> :
                    d \in {x \in DirSet : t_pre.exists[x] /\
                              \E n \in PreListing(x) : Dotted(n)}}
          /\ LastVp.flag = (LastVp.printed = {})
    /\ Len(vp_hist) = 2 => vp_hist[1].flag = vp_hist[2].flag

C8_Witness ==
    /\ Len(vp_hist) = 2
    /\ vp_hist[1].made = DirSet
    /\ ~vp_hist[1].flag
    /\ data = {"DATA_VALID"}

\* how far fit has come: it grows with every step and is bounded
Progress ==
    epoch + (CASE f_pc = "ready" -> 0 [] f_pc = "running" -> 1
               [] f_pc = "done" -> 2)

\* C9: fit ends: it can always take a step until it is done, every step
\* brings it further, and it never runs more than NUM_EPOCHS epochs.  It
\* ends before that exactly when the validation loss has gone 10 epochs
\* in a row without going below its least value, at the end of the first
\* epoch at which that is so, and never with fewer than 10 such epochs.
C9_FitTerminates ==
    /\ [](/\ epoch <= NUM_EPOCHS
          /\ Progress <= NUM_EPOCHS + 2
          /\ f_pc # "done" => ENABLED NextFit
          /\ hist.noimp <= 10
          /\ (f_pc = "running" /\ hist.noimp = 10) => stop_training
          /\ stop_training => hist.noimp = 10
          /\ f_pc = "done" => (epoch = NUM_EPOCHS \/ hist.noimp = 10))
    /\ [][Progress' > Progress]_vars
    /\ [][epoch' # epoch => (epoch' = epoch + 1 /\ hist.noimp < 10)]_vars

C9_Witness ==
    /\ f_pc = "done"
    /\ stop_training
    /\ epoch > 50
    /\ epoch < NUM_EPOCHS
    /\ hist.noimp = 10

C9_WitnessBudget ==
    /\ f_pc = "done"
    /\ ~stop_training
    /\ epoch = NUM_EPOCHS

\* C10: after every completed epoch the last file holds that epoch's
\* weights and the best file those of the first epoch with the greatest
\* validation accuracy so far; the best file is rewritten only at an
\* epoch whose accuracy is above every earlier one, and the end of fit
\* (early or not) leaves both files as they are.
C10_Checkpoints ==
    /\ [](epoch >= 1 =>
            /\ ckpt.last = epoch
            /\ ckpt.best = hist.argmax
            /\ ckpt.best >= 1
            /\ hist.max_acc = <<logs.val_acc>> \/ logs.val_acc < hist.max_acc[1])
    /\ [][ckpt'.best # ckpt.best =>
            /\ ckpt'.best = epoch'
            /\ epoch' = epoch + 1
            /\ hist.max_acc = <<>> \/ logs'.val_acc > hist.max_acc[1]]_vars
    /\ [][f_pc' = "done" => ckpt' = ckpt]_vars

C10_Witness ==
    /\ f_pc = "done"
    /\ stop_training
    /\ ckpt.best > 1
    /\ ckpt.best < ckpt.last
    /\ cb_stp.wait = Patience
    /\ logs.val_acc < hist.max_acc[1]

====
